---- MODULE Spec2Model ----
(***************************************************************************)
(* Growgent decision-and-alerting core: the Fire-Adaptive Irrigation       *)
(* Agent, the PSPS Anticipation Agent, the Water-Efficiency Agent and the  *)
(* Alert/Recommendation ledger, as implemented under src/Backend/app.      *)
(*                                                                         *)
(* Units.  Times are whole hours.  Soil moisture is in percent.  Fire-risk *)
(* scores and NDVI values are in hundredths (0.7 is 70).  Drought risk is  *)
(* in tenths (0.6 is 6).  Confidence and data quality are in sixtieths     *)
(* (1/6 is 10, 0.5 is 30, 1.0 is 60), the common denominator of the        *)
(* code's sixths and tenths.  Water is in liters.                          *)
(*                                                                         *)
(* The gateways of app/mcp, the field lookup and the database are the      *)
(* environment: what a call returns, or that it raises, is drawn from the  *)
(* sets below.                                                             *)
(***************************************************************************)
EXTENDS Integers, Sequences, FiniteSets, TLC

VARIABLES
    snap,       \* what the environment answers to one irrigation decision
    irr,        \* IrrigationAgentState returned by process()
    pc,         \* position of the irrigation pipeline driver
    now,        \* the clock, in hours
    recs,       \* ledger: the recommendations table, in insertion order
    alerts,     \* ledger: the alerts table, in insertion order
    svc,        \* outcome of the last service or API call
    seen,       \* PSPSService._seen_event_ids of the running process
    upstream,   \* the shutoff get_affected_fields reports for each field
    prefs,      \* the preferences resolved for each field's owner
    sweep,      \* summary of the last run of the PSPS agent
    weff,       \* summary of the last water-efficiency run for each field
    job,        \* what the last batch run reported
    water_metrics, \* WaterMetricsResponse of the last calculate_water_saved call
    mcp,        \* the last gateway read or MCP client call and its result
    chain,      \* the farm, owner and preferences rows behind each field id
    calls       \* accept and acknowledge calls that have read their row and not yet written

irrVars == <<snap, irr, pc>>
ledgerVars == <<recs, alerts>>
agentVars == <<seen, upstream, prefs, sweep, weff, job, water_metrics, mcp, chain,
               calls>>
vars == <<snap, irr, pc, now, recs, alerts, svc, seen, upstream, prefs, sweep, weff,
          job, water_metrics, mcp, chain, calls>>

\* Python None for a numeric slot
Null == 0 - 1

\* "no recommended_timing"
NoTiming == 0 - 1000

Max2(a, b) == IF a >= b THEN a ELSE b
Min2(a, b) == IF a <= b THEN a ELSE b

(***************************************************************************)
(* FireAdaptiveIrrigationAgent class constants                             *)
(***************************************************************************)
SOIL_MOISTURE_LOW_THRESHOLD == 30
SOIL_MOISTURE_SUFFICIENT_THRESHOLD == 50
FIRE_RISK_HIGH_THRESHOLD == 70
DROUGHT_RISK_HIGH_THRESHOLD == 6
PSPS_PRE_IRRIGATE_HOURS == 36

(***************************************************************************)
(* Environment answers                                                     *)
(***************************************************************************)
\* sensor_mcp.get_latest_reading: raises, returns None, or a reading whose
\* moisture_percent may be missing (Null)
MoistureValues == {0, 25, 30, 45, 50, 55}

SensorOutcomes ==
    {[kind |-> k, moisture |-> Null] : k \in {"raise", "none", "ok"}}
    \cup {[kind |-> "ok", moisture |-> m] : m \in MoistureValues}

\* weather_mcp.get_forecast: temperature of "current", and the summed
\* precipitation (mm) of the first three forecast days
WeatherOutcomes ==
    {[kind |-> k, temp |-> 0, precip |-> 0] : k \in {"raise", "none"}}
    \cup {[kind |-> "ok", temp |-> t, precip |-> p] : t \in {20, 32}, p \in {0, 10}}

\* fire_risk_mcp.get_fire_risk_zones: the risk_score of each returned zone
FireOutcomes ==
    {[kind |-> k, zones |-> <<>>] : k \in {"raise", "none"}}
    \cup {[kind |-> "ok", zones |-> z] : z \in {<<>>, <<50>>, <<85>>, <<30, 70>>}}

\* One PSPS prediction: h is the number of hours from the decision to the
\* predicted start; fmt tells how predicted_start_time is written:
\*   "naive"   ISO-8601 without a UTC offset
\*   "aware"   ISO-8601 with a UTC offset or a trailing Z
\*   "bad"     not ISO-8601
\*   "missing" the key is absent
Pred(h, fmt) == [h |-> h, fmt |-> fmt]

PredictionLists ==
    { <<>>,
      <<Pred(36, "naive")>>, <<Pred(37, "naive")>>, <<Pred(0, "naive")>>,
      <<Pred(1, "naive")>>, <<Pred(6, "naive")>>,
      <<Pred(10, "aware")>>, <<Pred(36, "aware")>>, <<Pred(10, "missing")>>,
      <<Pred(10, "bad"), Pred(20, "naive")>>,
      <<Pred(40, "naive"), Pred(30, "naive"), Pred(20, "naive")>> }

PspsOutcomes ==
    {[kind |-> k, preds |-> <<>>] : k \in {"raise", "none"}}
    \cup {[kind |-> "ok", preds |-> l] : l \in PredictionLists}

\* satellite_mcp.get_ndvi: "current" carries ndvi (Null when the key is
\* missing) and health_status
NdviOutcomes ==
    {[kind |-> k, ndvi |-> Null, health |-> "fair"] : k \in {"raise", "none"}}
    \cup {[kind |-> "ok", ndvi |-> n, health |-> s] :
             n \in {Null, 20, 50}, s \in {"poor", "fair"}}

\* The field lookup of _fetch_field_data: no session given, the row is found
\* (with or without location_geom), the row is absent, or the query raises
DbOutcomes == {"nodb", "found", "found_noloc", "notfound", "raise"}

Snapshots ==
    [db : DbOutcomes, sensor : SensorOutcomes, weather : WeatherOutcomes,
     fire : FireOutcomes, psps : PspsOutcomes, ndvi : NdviOutcomes]

(***************************************************************************)
(* IrrigationAgentState                                                    *)
(***************************************************************************)
NoWeather == [present |-> FALSE, temp |-> 0, precip |-> 0]
NoFire == [present |-> FALSE, zones |-> <<>>]
NoPsps == [present |-> FALSE, preds |-> <<>>]
NoNdvi == [present |-> FALSE, ndvi |-> Null, health |-> "fair"]

\* IrrigationAgentState(field_id=...) as constructed by recommend();
\* exc is the exception in flight ("" when none)
IrrigationAgentState ==
    [step |-> "initialize", error |-> "", exc |-> "",
     crop_stage |-> "none", field_location |-> FALSE,
     current_soil_moisture |-> Null,
     weather_forecast |-> NoWeather, fire_risk_data |-> NoFire,
     psps_predictions |-> NoPsps, ndvi_data |-> NoNdvi,
     water_need |-> Null, fire_risk_score |-> Null,
     drought_risk_score |-> Null, data_quality_score |-> Null,
     recommended_action |-> "NONE", recommended_timing |-> NoTiming,
     zones_affected |-> FALSE, confidence |-> Null,
     fire_risk_reduction_percent |-> Null, water_saved_liters |-> Null,
     psps_alert |-> FALSE, reasons |-> {}]

\* _fetch_field_data: every branch ends with the default location and the
\* default crop stage
fetch_field_data(st, db) ==
    [st EXCEPT !.step = "fetch_field_data",
               !.field_location = TRUE,
               !.crop_stage = "vegetative"]

\* The gateways are called in the order sensor, weather, fire-risk, PSPS,
\* NDVI inside one try block: index of the first that raises, 6 when none does
FirstRaise(g) ==
    IF g.sensor.kind = "raise" THEN 1
    ELSE IF g.weather.kind = "raise" THEN 2
    ELSE IF g.fire.kind = "raise" THEN 3
    ELSE IF g.psps.kind = "raise" THEN 4
    ELSE IF g.ndvi.kind = "raise" THEN 5
    ELSE 6

\* _fetch_external_data
fetch_external_data(st, g) ==
    LET s0 == [st EXCEPT !.step = "fetch_external_data"]
        r == FirstRaise(g)
    IN  IF ~s0.field_location
        THEN [s0 EXCEPT !.error = "Field location not available"]
        ELSE [s0 EXCEPT
                !.current_soil_moisture =
                    IF r > 1 /\ g.sensor.kind = "ok" THEN g.sensor.moisture ELSE Null,
                !.weather_forecast =
                    IF r > 2 /\ g.weather.kind = "ok"
                    THEN [present |-> TRUE, temp |-> g.weather.temp,
                          precip |-> g.weather.precip]
                    ELSE NoWeather,
                !.fire_risk_data =
                    IF r > 3 /\ g.fire.kind = "ok"
                    THEN [present |-> TRUE, zones |-> g.fire.zones]
                    ELSE NoFire,
                !.psps_predictions =
                    IF r > 4 /\ g.psps.kind = "ok"
                    THEN [present |-> TRUE, preds |-> g.psps.preds]
                    ELSE NoPsps,
                !.ndvi_data =
                    IF r > 5 /\ g.ndvi.kind = "ok"
                    THEN [present |-> TRUE, ndvi |-> g.ndvi.ndvi,
                          health |-> g.ndvi.health]
                    ELSE NoNdvi,
                !.error =
                    IF r <= 5 THEN "Error fetching external data" ELSE ""]

\* _calculate_water_need, in hundredths: base need of the crop stage, times
\* 1.3 above 30 degrees, times 1.1 above 25 degrees, capped at 1.0
calculate_water_need(crop_stage, weather) ==
    LET base == CASE crop_stage = "seedling" -> 60
                  [] crop_stage = "vegetative" -> 80
                  [] crop_stage = "flowering" -> 100
                  [] crop_stage = "maturity" -> 70
                  [] OTHER -> 80
        need == IF weather.present /\ weather.temp > 30 THEN (base * 13) \div 10
                ELSE IF weather.present /\ weather.temp > 25 THEN (base * 11) \div 10
                ELSE base
    IN  Min2(100, need)

RECURSIVE MaxRisk(_, _)
MaxRisk(zones, acc) ==
    IF zones = <<>> THEN acc
    ELSE MaxRisk(Tail(zones), Max2(acc, Head(zones)))

\* _calculate_fire_risk_score
calculate_fire_risk_score(fire) ==
    IF ~fire.present THEN 50
    ELSE IF fire.zones = <<>> THEN 50
    ELSE MaxRisk(fire.zones, 0)

\* _calculate_drought_risk_score, in tenths
calculate_drought_risk_score(moisture, weather) ==
    LET soil == IF moisture = Null THEN 0
                ELSE IF moisture < SOIL_MOISTURE_LOW_THRESHOLD THEN 7
                ELSE IF moisture < SOIL_MOISTURE_SUFFICIENT_THRESHOLD THEN 4
                ELSE 1
        dry == IF weather.present /\ weather.precip < 5 THEN 3 ELSE 0
    IN  Min2(10, soil + dry)

\* _calculate_data_quality_score that leaves the field location out of the
\* count
calculate_data_quality_score_unlocated(st) ==
    10 * ( (IF st.current_soil_moisture # Null THEN 1 ELSE 0)
         + (IF st.weather_forecast.present THEN 1 ELSE 0)
         + (IF st.fire_risk_data.present THEN 1 ELSE 0)
         + (IF st.psps_predictions.present THEN 1 ELSE 0)
         + (IF st.ndvi_data.present THEN 1 ELSE 0) )

\* _calculate_data_quality_score, in sixtieths: one sixth per available slot
calculate_data_quality_score(st) ==
    10 * ( (IF st.current_soil_moisture # Null THEN 1 ELSE 0)
         + (IF st.weather_forecast.present THEN 1 ELSE 0)
         + (IF st.fire_risk_data.present THEN 1 ELSE 0)
         + (IF st.psps_predictions.present THEN 1 ELSE 0)
         + (IF st.field_location THEN 1 ELSE 0)
         + (IF st.ndvi_data.present THEN 1 ELSE 0) )

\* _calculate_metrics
calculate_metrics(st) ==
    LET s0 == [st EXCEPT !.step = "calculate_metrics"]
    IN  [s0 EXCEPT
            !.water_need = calculate_water_need(s0.crop_stage, s0.weather_forecast),
            !.fire_risk_score = calculate_fire_risk_score(s0.fire_risk_data),
            !.drought_risk_score =
                calculate_drought_risk_score(s0.current_soil_moisture,
                                             s0.weather_forecast),
            !.data_quality_score = calculate_data_quality_score(s0)]

\* One prediction of the loop in _make_decision.  datetime.now() is naive:
\* subtracting it from an offset-aware time raises TypeError, a string that
\* is not ISO-8601 raises ValueError; both are caught and the prediction is
\* skipped, as is a prediction without predicted_start_time.
PredictionQualifies(p) ==
    /\ p.fmt = "naive"
    /\ 0 < p.h
    /\ p.h <= PSPS_PRE_IRRIGATE_HOURS

RECURSIVE FirstQualifying(_)
\* the first prediction of the list that qualifies, <<>> when none does
FirstQualifying(preds) ==
    IF preds = <<>> THEN <<>>
    ELSE IF PredictionQualifies(Head(preds)) THEN <<Head(preds)>>
    ELSE FirstQualifying(Tail(preds))

\* crop_health_poor of _make_decision: a missing ndvi key reads as 0.5
crop_health_poor(ndvi) ==
    /\ ndvi.present
    /\ \/ ndvi.health = "poor"
       \/ (IF ndvi.ndvi = Null THEN 50 ELSE ndvi.ndvi) < 30

\* _make_decision
make_decision(st) ==
    LET s0 == [st EXCEPT !.step = "make_decision"]
        q == IF s0.psps_predictions.present
             THEN FirstQualifying(s0.psps_predictions.preds) ELSE <<>>
        fire_risk_high == s0.fire_risk_score # Null
                          /\ s0.fire_risk_score >= FIRE_RISK_HIGH_THRESHOLD
        soil_moisture_sufficient ==
            s0.current_soil_moisture # Null
            /\ s0.current_soil_moisture >= SOIL_MOISTURE_SUFFICIENT_THRESHOLD
        soil_moisture_low ==
            s0.current_soil_moisture # Null
            /\ s0.current_soil_moisture < SOIL_MOISTURE_LOW_THRESHOLD
        drought_risk_high == s0.drought_risk_score # Null
                             /\ s0.drought_risk_score >= DROUGHT_RISK_HIGH_THRESHOLD
        poor == crop_health_poor(s0.ndvi_data)
    IN  IF q # <<>>
        THEN \* returns before zones_affected is set
             [s0 EXCEPT !.recommended_action = "PRE_IRRIGATE",
                        !.recommended_timing = q[1].h - 12,
                        !.psps_alert = TRUE,
                        !.reasons = {"psps"}]
        ELSE IF fire_risk_high /\ soil_moisture_sufficient
        THEN [s0 EXCEPT !.recommended_action = "DELAY",
                        !.recommended_timing = 24,
                        !.reasons = {"fire_risk_high"},
                        !.zones_affected = TRUE]
        ELSE IF soil_moisture_low \/ drought_risk_high \/ poor
        THEN IF poor /\ s0.ndvi_data.ndvi = Null
             THEN \* state.ndvi_data["current"]["ndvi"] raises KeyError after
                  \* the action and the timing have been assigned
                  [s0 EXCEPT !.recommended_action = "IRRIGATE",
                             !.recommended_timing = 6,
                             !.exc = "KeyError"]
             ELSE [s0 EXCEPT !.recommended_action = "IRRIGATE",
                             !.recommended_timing = 6,
                             !.reasons =
                                 (IF soil_moisture_low THEN {"soil_moisture_low"} ELSE {})
                                 \cup (IF drought_risk_high THEN {"drought_risk_high"} ELSE {})
                                 \cup (IF poor THEN {"crop_health_poor"} ELSE {}),
                             !.zones_affected = TRUE]
        ELSE [s0 EXCEPT !.recommended_action = "MONITOR",
                        !.recommended_timing = 12,
                        !.reasons = {"balanced"},
                        !.zones_affected = TRUE]

\* _calculate_confidence that lowers an ambiguous decision's confidence
\* without the 0.5 floor
calculate_confidence_floorless(st) ==
    LET base_confidence == IF st.data_quality_score = Null \/ st.data_quality_score = 0
                           THEN 30 ELSE st.data_quality_score
        fire_risk_high == st.fire_risk_score # Null
                          /\ st.fire_risk_score >= FIRE_RISK_HIGH_THRESHOLD
        soil_moisture_low == st.current_soil_moisture # Null
                             /\ st.current_soil_moisture < SOIL_MOISTURE_LOW_THRESHOLD
        moisture_truthy == st.current_soil_moisture # Null
                           /\ st.current_soil_moisture # 0
    IN  IF st.recommended_action = "PRE_IRRIGATE" THEN Min2(60, base_confidence + 18)
        ELSE IF (fire_risk_high /\ moisture_truthy) \/ soil_moisture_low
        THEN Min2(60, base_confidence + 12)
        ELSE base_confidence - 6

\* _calculate_confidence
calculate_confidence(st) ==
    LET base_confidence == IF st.data_quality_score = Null \/ st.data_quality_score = 0
                           THEN 30 ELSE st.data_quality_score
        fire_risk_high == st.fire_risk_score # Null
                          /\ st.fire_risk_score >= FIRE_RISK_HIGH_THRESHOLD
        soil_moisture_low == st.current_soil_moisture # Null
                             /\ st.current_soil_moisture < SOIL_MOISTURE_LOW_THRESHOLD
        \* "fire_risk_high and state.current_soil_moisture": 0.0 is falsy
        moisture_truthy == st.current_soil_moisture # Null
                           /\ st.current_soil_moisture # 0
    IN  IF st.recommended_action = "PRE_IRRIGATE" THEN Min2(60, base_confidence + 18)
        ELSE IF (fire_risk_high /\ moisture_truthy) \/ soil_moisture_low
        THEN Min2(60, base_confidence + 12)
        ELSE Max2(30, base_confidence - 6)

\* _calculate_impact without the 15.0 cap on the fire-risk reduction
calculate_impact_uncapped(st) ==
    LET s0 == [st EXCEPT !.step = "calculate_impact"]
    IN  [s0 EXCEPT
            !.confidence = calculate_confidence(s0),
            !.fire_risk_reduction_percent =
                IF s0.recommended_action = "DELAY"
                THEN (IF s0.fire_risk_score = Null \/ s0.fire_risk_score = 0
                      THEN 0 ELSE 2 * s0.fire_risk_score)
                ELSE 0,
            !.water_saved_liters =
                IF s0.recommended_action = "DELAY" THEN 5000 ELSE 0]

\* _calculate_impact: fire_risk_reduction_percent in tenths of a percent
calculate_impact(st) ==
    LET s0 == [st EXCEPT !.step = "calculate_impact"]
    IN  [s0 EXCEPT
            !.confidence = calculate_confidence(s0),
            !.fire_risk_reduction_percent =
                IF s0.recommended_action = "DELAY"
                THEN Min2(150, IF s0.fire_risk_score = Null \/ s0.fire_risk_score = 0
                               THEN 0 ELSE 2 * s0.fire_risk_score)
                ELSE 0,
            !.water_saved_liters =
                IF s0.recommended_action = "DELAY" THEN 5000 ELSE 0]

\* the except branch of process
on_exception(st) ==
    [st EXCEPT !.error = st.exc, !.exc = "", !.step = "error"]

\* FireAdaptiveIrrigationAgent.process
process(st, s) ==
    LET s1 == fetch_field_data(st, s.db)
        s2 == fetch_external_data(s1, s)
        s3 == calculate_metrics(s2)
        s4 == make_decision(s3)
    IN  IF s1.error # "" THEN s1
        ELSE IF s2.error # "" THEN s2
        ELSE IF s3.error # "" THEN s3
        ELSE IF s4.exc # "" THEN on_exception(s4)
        ELSE IF s4.error # "" THEN s4
        ELSE [calculate_impact(s4) EXCEPT !.step = "complete"]

\* FireAdaptiveIrrigationAgent.recommend
recommend(s) == process(IrrigationAgentState, s)

(***************************************************************************)
(* Ledger and service layer                                                *)
(***************************************************************************)
\* rows of the fields table, and an id that has no row
Fields == {"f1", "f2"}
NoField == "f0"
FieldIds == Fields \cup {NoField}

\* svc.prior tells whether the row addressed by an acknowledge or accept call
\* was already acknowledged or accepted when the call arrived
NoCall == [op |-> "none", field |-> NoField, id |-> 0, status |-> "none",
           prior |-> FALSE]

\* Recommendation(...) as built by create_recommendation; confidence falls
\* back to 0.5 when the agent's is None or 0.0, the reason to a fixed text
\* when the agent's is empty
RecommendationRow(fid, st, t) ==
    [field |-> fid, agent_type |-> "FIRE_ADAPTIVE_IRRIGATION",
     action |-> st.recommended_action,
     recommended_timing |-> IF st.recommended_timing = NoTiming THEN NoTiming
                            ELSE t + st.recommended_timing,
     timing_minute |-> 0,
     confidence |-> IF st.confidence = Null \/ st.confidence = 0 THEN 30
                    ELSE st.confidence,
     water_saved_liters |-> st.water_saved_liters,
     reason |-> IF st.reasons = {} THEN {"No reasoning provided"} ELSE st.reasons,
     psps_alert |-> st.psps_alert, event |-> "-",
     accepted |-> FALSE, accepted_at |-> Null, created_at |-> t]

\* create_recommendation that persists whatever the agent produced as soon
\* as an action is present, without looking at agent_state.error
create_recommendation_unchecked(fid, st, t, table) ==
    IF st.recommended_action = "NONE"
    THEN [status |-> "ValueError", table |-> table]
    ELSE IF fid \notin Fields
    THEN [status |-> "IntegrityError", table |-> table]
    ELSE [status |-> "created", table |-> Append(table, RecommendationRow(fid, st, t))]

\* RecommendationService.create_recommendation, given the state the agent
\* returned: ValueError on an agent error or a missing action; the commit
\* fails on the foreign key fields.id when the field has no row
create_recommendation(fid, st, t, table) ==
    IF st.error # ""
    THEN [status |-> "ValueError", table |-> table]
    ELSE IF st.recommended_action = "NONE"
    THEN [status |-> "ValueError", table |-> table]
    ELSE IF fid \notin Fields
    THEN [status |-> "IntegrityError", table |-> table]
    ELSE [status |-> "created", table |-> Append(table, RecommendationRow(fid, st, t))]

\* HTTP status of POST /api/agents/irrigation/recommend
recommend_irrigation_status(outcome) ==
    CASE outcome = "created" -> "201"
      [] outcome = "ValueError" -> "400"
      [] OTHER -> "500"

(***************************************************************************)
(* Environment answers used at the service layer: one snapshot per kind of *)
(* outcome of the pipeline                                                 *)
(***************************************************************************)
SensorNone == [kind |-> "none", moisture |-> Null]
SensorRaise == [kind |-> "raise", moisture |-> Null]
Sensor(m) == [kind |-> "ok", moisture |-> m]
WeatherNone == [kind |-> "none", temp |-> 0, precip |-> 0]
FireNone == [kind |-> "none", zones |-> <<>>]
Fire(z) == [kind |-> "ok", zones |-> z]
PspsNone == [kind |-> "none", preds |-> <<>>]
Psps(l) == [kind |-> "ok", preds |-> l]
NdviNone == [kind |-> "none", ndvi |-> Null, health |-> "fair"]
Ndvi(n, h) == [kind |-> "ok", ndvi |-> n, health |-> h]

Answers(se, fi, ps, nd) ==
    [sensor |-> se, weather |-> WeatherNone, fire |-> fi, psps |-> ps, ndvi |-> nd]

ServiceAnswers ==
    { Answers(SensorNone, FireNone, PspsNone, NdviNone),
      Answers(SensorRaise, FireNone, PspsNone, NdviNone),
      Answers(Sensor(55), Fire(<<85>>), PspsNone, NdviNone),
      Answers(SensorNone, FireNone, PspsNone, Ndvi(Null, "poor")) }

\* what the field lookup can answer for a field id
DbAnswers(fid) ==
    IF fid \in Fields THEN {"found"} ELSE {"notfound"}

WithDb(a, db) ==
    [db |-> db, sensor |-> a.sensor, weather |-> a.weather, fire |-> a.fire,
     psps |-> a.psps, ndvi |-> a.ndvi]

(***************************************************************************)
(* Owner preferences, as get_user_preferences_for_field resolves them      *)
(***************************************************************************)
\* defaults of the UserPreferences columns the agents read
Preferences(psps_on, lead, milestone_on, milestone) ==
    [present |-> TRUE, psps_alerts_enabled |-> psps_on,
     psps_pre_irrigation_hours |-> lead,
     water_milestone_alerts_enabled |-> milestone_on,
     water_savings_milestone_liters |-> milestone,
     water_cost_per_liter_usd |-> Null]

DEFAULT_PSPS_PRE_IRRIGATE_HOURS == 36
DEFAULT_MILESTONE_1000L == 1000
DEFAULT_MILESTONE_5000L == 5000
DEFAULT_MILESTONE_10000L == 10000
DEFAULT_MILESTONE_25000L == 25000

DefaultPreferences ==
    Preferences(TRUE, DEFAULT_PSPS_PRE_IRRIGATE_HOURS, TRUE,
                DEFAULT_MILESTONE_1000L)

\* the resolver found no farm, owner or preferences row
NoPreferences == [DefaultPreferences EXCEPT !.present = FALSE]

(***************************************************************************)
(* PSPS anticipation agent                                                 *)
(***************************************************************************)
FieldOrder == <<"f1", "f2">>
NoEvent == "none"

\* PspsStatus: the values of the status column of a PSPS event row
PspsStatus ==
    [PLANNED |-> "planned", ACTIVE |-> "active", RESTORING |-> "restoring",
     COMPLETED |-> "completed"]

\* shutoff_info dictionaries handed to the agent by get_affected_fields:
\* status, and predicted_start_time as hours on the model clock plus minutes
\* past the hour.  e1 to e3 carry the status words the agent compares with
\* (e1 starts half an hour after the clock's origin); e4 is an active event
\* row as _fetch_shutoff_areas formats it: status is event.status.value and
\* there is no predicted_start_time key
ShutoffInfo ==
    [e \in {"e1", "e2", "e3", "e4"} |->
        CASE e = "e1" -> [status |-> "PREDICTED", start |-> 0, minute |-> 30, fmt |-> "aware"]
          [] e = "e2" -> [status |-> "PREDICTED", start |-> 20, minute |-> 0, fmt |-> "aware"]
          [] e = "e3" -> [status |-> "ACTIVE", start |-> 0, minute |-> 0, fmt |-> "missing"]
          [] e = "e4" -> [status |-> PspsStatus.ACTIVE, start |-> 0, minute |-> 0,
                           fmt |-> "missing"]]

EventIds == DOMAIN ShutoffInfo

\* (predicted_start - now).total_seconds() / 3600 of _check_pre_irrigation,
\* counted in minutes; the model clock t stands at whole hours
minutes_until(info, t) == 60 * (info.start - t) + info.minute

\* literals of _create_pre_irrigation_recommendation
RecentRecommendationHours == 6
PreIrrigateLeadHours == 12
PspsRecommendationConfidence == 51

NoSweep ==
    [scope |-> "none", at |-> 0, error |-> "", committed |-> FALSE, alerts_created |-> 0,
     repeat |-> FALSE, same_data |-> FALSE]

\* what the water-efficiency agent last did for a field: the water saved the
\* ledger implied at that run, the largest value an earlier run computed,
\* whether the computed values have only grown, and the milestone it alerted
\* (0: none)
NoWaterRun ==
    [water_saved |-> Null, prior |-> Null, rising |-> TRUE, error |-> "",
     alerted |-> 0]

\* the report of a batch run: which batch, the two counts it logs, and the
\* inputs of the run (the gateway answers per field of an irrigation run,
\* the fields whose alert could not be created in a PSPS sweep, and the
\* events that sweep found to be new)
NoJob ==
    [name |-> "none", succeeded |-> 0, errors |-> 0, answers |-> <<>>,
     failing |-> {}, new_events |-> {}]

\* no call of calculate_water_saved yet; liters are whole numbers, the cost
\* is in thousandths of a dollar
NoMetrics ==
    [field |-> NoField, period |-> "none", error |-> "",
     water_recommended_liters |-> 0, water_typical_liters |-> 0,
     water_saved_liters |-> 0, cost_saved_usd |-> 0]

\* no gateway has been read yet
NoRead ==
    [op |-> "none", gateway |-> "none", use_mock |-> FALSE, upstream |-> <<>>,
     result |-> "none", attempts |-> 0]

\* the rows behind a field id, as far as get_user_preferences_for_field
\* follows them: link tells how far the chain reaches, stored is the
\* preferences row of the owner
\*   "no_field"        no row in fields
\*   "no_farm"         neither field.farm nor a farm with the field's farm_id
\*   "by_relationship" field.farm (farm_uuid) leads to the farm and its owner
\*   "by_farm_id"      only the farm_id string leads to the farm and its owner
Chain(link, stored) == [link |-> link, stored |-> stored]

\* every field with a farm and an owner who has no preferences row
NoChain ==
    [f \in FieldIds |->
        IF f \in Fields THEN Chain("by_relationship", NoPreferences)
        ELSE Chain("no_field", NoPreferences)]

\* no agent has run yet
AgentsIdle ==
    /\ seen = {}
    /\ upstream = [f \in Fields |-> NoEvent]
    /\ prefs = [f \in Fields |-> NoPreferences]
    /\ sweep = NoSweep
    /\ weff = [f \in Fields |-> NoWaterRun]
    /\ job = NoJob
    /\ water_metrics = NoMetrics
    /\ mcp = NoRead
    /\ chain = NoChain
    /\ calls = {}

\* bounds of the service-layer specification
MaxRecs == 1
MaxAlerts == 1
MaxClock == 1

(***************************************************************************)
(* The irrigation decision on its own: the environment fixes its answers,  *)
(* then one decision is made.                                              *)
(***************************************************************************)
InitDecision ==
    /\ snap \in Snapshots
    /\ irr = IrrigationAgentState
    /\ pc = "ready"
    /\ now = 0
    /\ recs = <<>>
    /\ alerts = <<>>
    /\ svc = NoCall
    /\ AgentsIdle

Decide ==
    /\ pc = "ready"
    /\ irr' = recommend(snap)
    /\ pc' = "decided"
    /\ UNCHANGED <<snap, now, recs, alerts, svc>>
    /\ UNCHANGED agentVars

NextDecision == Decide

SpecDecision == InitDecision /\ [][NextDecision]_vars

(***************************************************************************)
(* The service layer: API calls and ledger mutations                       *)
(***************************************************************************)
InitService ==
    /\ snap = WithDb(Answers(SensorNone, FireNone, PspsNone, NdviNone), "nodb")
    /\ irr = IrrigationAgentState
    /\ pc = "ready"
    /\ now = 0
    /\ recs = <<>>
    /\ alerts = <<>>
    /\ svc = NoCall
    /\ AgentsIdle

\* POST /api/agents/irrigation/recommend for field fid
RecommendIrrigation(fid, s) ==
    /\ Len(recs) < MaxRecs
    /\ LET st == recommend(s)
           r == create_recommendation(fid, st, now, recs)
       IN  /\ snap' = s
           /\ irr' = st
           /\ recs' = r.table
           /\ svc' = [op |-> "recommend", field |-> fid,
                      id |-> IF r.status = "created" THEN Len(r.table) ELSE 0,
                      status |-> recommend_irrigation_status(r.status),
                      prior |-> FALSE]
    /\ pc' = "decided"
    /\ UNCHANGED <<now, alerts>>
    /\ UNCHANGED agentVars

\* RecommendationService.accept_recommendation behind
\* POST /api/recommendations/{id}/accept
accept_recommendation(table, id, t) ==
    IF id \notin 1..Len(table) THEN table
    ELSE IF table[id].accepted THEN table
    ELSE [table EXCEPT ![id].accepted = TRUE, ![id].accepted_at = t]

AcceptRecommendation(id) ==
    /\ recs' = accept_recommendation(recs, id, now)
    /\ svc' = [op |-> "accept", field |-> NoField, id |-> id,
               status |-> IF id \in 1..Len(recs) THEN "200" ELSE "404",
               prior |-> id \in 1..Len(recs) /\ recs[id].accepted]
    /\ UNCHANGED <<snap, irr, pc, now, alerts>>
    /\ UNCHANGED agentVars

\* Alert(...) as built by AlertService.create_alert; event and milestone
\* record what the message text is about
AlertRow(fid, alert_type, severity, agent_type, event, milestone, t) ==
    [field |-> fid, alert_type |-> alert_type, severity |-> severity,
     agent_type |-> agent_type, event |-> event, milestone |-> milestone,
     acknowledged |-> FALSE, acknowledged_at |-> Null, created_at |-> t]

\* AlertService.create_alert: ValueError when the message is empty or blank
create_alert(table, row, message) ==
    IF message \in {"", " "}
    THEN [status |-> "ValueError", table |-> table]
    ELSE [status |-> "created", table |-> Append(table, row)]

\* POST /api/alerts/create
CreateAlert(fid, message) ==
    /\ Len(alerts) < MaxAlerts
    /\ LET r == create_alert(alerts,
                    AlertRow(fid, "PSPS_WARNING", "WARNING", "PSPS_ANTICIPATION",
                             "-", 0, now), message)
       IN  /\ alerts' = r.table
           /\ svc' = [op |-> "create_alert", field |-> fid,
                      id |-> IF r.status = "created" THEN Len(r.table) ELSE 0,
                      status |-> IF r.status = "created" THEN "201" ELSE "400",
                      prior |-> FALSE]
    /\ UNCHANGED <<snap, irr, pc, now, recs>>
    /\ UNCHANGED agentVars

\* AlertService.acknowledge_alert that stamps the alert on every call
acknowledge_alert_restamping(table, id, t) ==
    IF id \notin 1..Len(table) THEN table
    ELSE [table EXCEPT ![id].acknowledged = TRUE, ![id].acknowledged_at = t]

\* AlertService.acknowledge_alert behind POST /api/alerts/{id}/acknowledge
acknowledge_alert(table, id, t) ==
    IF id \notin 1..Len(table) THEN table
    ELSE IF table[id].acknowledged THEN table
    ELSE [table EXCEPT ![id].acknowledged = TRUE, ![id].acknowledged_at = t]

AcknowledgeAlert(id) ==
    /\ alerts' = acknowledge_alert(alerts, id, now)
    /\ svc' = [op |-> "acknowledge", field |-> NoField, id |-> id,
               status |-> IF id \in 1..Len(alerts) THEN "200" ELSE "404",
               prior |-> id \in 1..Len(alerts) /\ alerts[id].acknowledged]
    /\ UNCHANGED <<snap, irr, pc, now, recs>>
    /\ UNCHANGED agentVars

Tick ==
    /\ now < MaxClock
    /\ now' = now + 1
    /\ UNCHANGED <<snap, irr, pc, recs, alerts, svc>>
    /\ UNCHANGED agentVars

NextService ==
    \/ \E fid \in {"f1", NoField} : \E a \in ServiceAnswers : \E db \in DbAnswers(fid) :
          RecommendIrrigation(fid, WithDb(a, db))
    \/ \E id \in 1..(Len(recs) + 1) : AcceptRecommendation(id)
    \/ \E m \in {"", "PSPS Event"} : CreateAlert("f1", m)
    \/ \E id \in 1..(Len(alerts) + 1) : AcknowledgeAlert(id)
    \/ Tick

SpecService == InitService /\ [][NextService]_vars

(***************************************************************************)
(* PSPS anticipation agent: one run of process is one step                 *)
(***************************************************************************)
\* PSPSService.get_affected_fields: at most one (field, shutoff) pair per
\* field, in field order
RECURSIVE AffectedFrom(_, _)
AffectedFrom(up, i) ==
    IF i > Len(FieldOrder) THEN <<>>
    ELSE LET f == FieldOrder[i]
         IN  (IF up[f] = NoEvent THEN <<>> ELSE << <<f, up[f]>> >>)
             \o AffectedFrom(up, i + 1)

get_affected_fields(up) == AffectedFrom(up, 1)

\* PSPSService.is_new_event that reports without remembering the id
is_new_event_forgetful(seenIds, event_id) ==
    [is_new |-> event_id \notin seenIds, seen |-> seenIds]

\* PSPSService.is_new_event: the answer and the registry afterwards
is_new_event(seenIds, event_id) ==
    [is_new |-> event_id \notin seenIds, seen |-> seenIds \cup {event_id}]

\* the loop of _find_affected_fields over the filtered pairs
RECURSIVE IdentifyNew(_, _, _, _)
IdentifyNew(affected, i, seenIds, new) ==
    IF i > Len(affected) THEN [seen |-> seenIds, new_events |-> new]
    ELSE LET r == is_new_event(seenIds, affected[i][2])
         IN  IdentifyNew(affected, i + 1, r.seen,
                         IF r.is_new THEN new \cup {affected[i][2]} ELSE new)

\* PSPSAlertAgent._find_affected_fields for scope "all" or one field id
find_affected_fields(scope, up, seenIds) ==
    LET all == get_affected_fields(up)
        InScope(pair) == scope = "all" \/ pair[1] = scope
        affected == SelectSeq(all, InScope)
        r == IdentifyNew(affected, 1, seenIds, {})
    IN  [affected |-> affected, seen |-> r.seen, new_events |-> r.new_events]

\* alert type and severity chosen from the shutoff status
PspsAlertRow(f, e, t) ==
    LET status == ShutoffInfo[e].status
    IN  IF status = "ACTIVE"
        THEN AlertRow(f, "PSPS_ACTIVE", "CRITICAL", "PSPS_ANTICIPATION", e, 0, t)
        ELSE IF status = "PREDICTED"
        THEN AlertRow(f, "PSPS_WARNING", "CRITICAL", "PSPS_ANTICIPATION", e, 0, t)
        ELSE AlertRow(f, "PSPS_WARNING", "WARNING", "PSPS_ANTICIPATION", e, 0, t)

\* PSPSAlertAgent._generate_alerts; failing holds the fields whose
\* AlertService.create_alert call raises
RECURSIVE generate_alerts(_, _, _, _, _, _, _, _)
generate_alerts(affected, i, new, pr, failing, t, table, count) ==
    IF i > Len(affected) THEN [table |-> table, alerts_created |-> count]
    ELSE LET f == affected[i][1]
             e == affected[i][2]
         IN  IF e \notin new
             THEN generate_alerts(affected, i + 1, new, pr, failing, t, table, count)
             ELSE IF pr[f].present /\ ~pr[f].psps_alerts_enabled
             THEN generate_alerts(affected, i + 1, new, pr, failing, t, table, count)
             ELSE IF f \in failing
             THEN generate_alerts(affected, i + 1, new, pr, failing, t, table, count)
             ELSE generate_alerts(affected, i + 1, new, pr, failing, t,
                                  Append(table, PspsAlertRow(f, e, t)), count + 1)

\* the latest PSPS pre-irrigation recommendation of a field (0: none)
RECURSIVE LatestPreIrrigation(_, _, _)
LatestPreIrrigation(table, f, i) ==
    IF i = 0 THEN 0
    ELSE IF /\ table[i].field = f
            /\ table[i].agent_type = "PSPS_ANTICIPATION"
            /\ table[i].action = "PRE_IRRIGATE"
            /\ table[i].psps_alert
         THEN i
         ELSE LatestPreIrrigation(table, f, i - 1)

\* PSPSAlertAgent._create_pre_irrigation_recommendation; hours_until is
\* counted in minutes, the timing is stored as a whole hour and the minutes
\* past it
create_pre_irrigation_recommendation(table, f, e, hours_until, t) ==
    LET existing == LatestPreIrrigation(table, f, Len(table))
        lead == Max2(60, hours_until - 60 * PreIrrigateLeadHours)
    IN  IF existing # 0 /\ t - table[existing].created_at < RecentRecommendationHours
        THEN table
        ELSE Append(table,
                [field |-> f, agent_type |-> "PSPS_ANTICIPATION",
                 action |-> "PRE_IRRIGATE",
                 recommended_timing |-> t + (lead \div 60),
                 timing_minute |-> lead % 60,
                 confidence |-> PspsRecommendationConfidence,
                 water_saved_liters |-> Null,
                 reason |-> {"psps_shutoff_predicted"},
                 psps_alert |-> TRUE, event |-> e,
                 accepted |-> FALSE, accepted_at |-> Null, created_at |-> t])

\* pre_irrigate_hours of a field: the owner's, or the default when there are
\* no preferences or the owner's value is 0
pre_irrigate_hours(p) ==
    IF p.present /\ p.psps_pre_irrigation_hours # 0
    THEN p.psps_pre_irrigation_hours
    ELSE DEFAULT_PSPS_PRE_IRRIGATE_HOURS

\* the test of _check_pre_irrigation on one predicted_start_time, hours_until
\* counted in minutes: only an offset-aware time can be compared with
\* datetime.now(timezone.utc), the TypeError of a time without offset and the
\* ValueError of an unparsable one are caught and the shutoff is skipped
InPreIrrigationWindow(fmt, hours_until, lead) ==
    /\ fmt = "aware"
    /\ 0 < hours_until
    /\ hours_until <= 60 * lead

\* PSPSAlertAgent._check_pre_irrigation
RECURSIVE check_pre_irrigation(_, _, _, _, _)
check_pre_irrigation(affected, i, pr, t, table) ==
    IF i > Len(affected) THEN table
    ELSE LET f == affected[i][1]
             e == affected[i][2]
             info == ShutoffInfo[e]
             hours_until == minutes_until(info, t)
         IN  IF info.status # "PREDICTED"
             THEN check_pre_irrigation(affected, i + 1, pr, t, table)
             ELSE IF InPreIrrigationWindow(info.fmt, hours_until,
                                           pre_irrigate_hours(pr[f]))
             THEN check_pre_irrigation(affected, i + 1, pr, t,
                      create_pre_irrigation_recommendation(table, f, e, hours_until, t))
             ELSE check_pre_irrigation(affected, i + 1, pr, t, table)

\* PSPSAlertAgent.process on a fresh PSPSAgentState; lookup_ok is whether
\* get_affected_fields returned, pr is what the preferences resolver returns
\* for each field
psps_process_for(scope, lookup_ok, failing, pr) ==
    IF ~lookup_ok
    THEN [error |-> "Error finding affected fields", seen |-> seen,
          alerts |-> alerts, alerts_created |-> 0, recs |-> recs]
    ELSE LET found == find_affected_fields(scope, upstream, seen)
             g == generate_alerts(found.affected, 1, found.new_events, pr,
                                  failing, now, alerts, 0)
         IN  [error |-> "", seen |-> found.seen,
              alerts |-> g.table, alerts_created |-> g.alerts_created,
              recs |-> check_pre_irrigation(found.affected, 1, pr, now, recs)]

\* the same run, the resolver returning the preferences noted in prefs
psps_process(scope, lookup_ok, failing) ==
    psps_process_for(scope, lookup_ok, failing, prefs)

\* what the run leaves behind: the registry always, the rows only when the
\* caller's session is committed
SweepDone(scope, r, committed, report) ==
    /\ seen' = r.seen
    /\ alerts' = IF committed THEN r.alerts ELSE alerts
    /\ recs' = IF committed THEN r.recs ELSE recs
    /\ sweep' = [scope |-> scope, at |-> now, error |-> r.error, committed |-> committed,
                 alerts_created |-> r.alerts_created,
                 repeat |-> /\ sweep.scope = scope
                            /\ sweep.same_data
                            /\ sweep.error = ""
                            /\ r.error = "",
                 same_data |-> TRUE]
    /\ svc' = [NoCall EXCEPT !.op = "psps"]
    /\ job' = report
    /\ UNCHANGED <<snap, irr, pc, now, upstream, prefs, weff, water_metrics, mcp, chain, calls>>

\* bounds of the PSPS specification
MaxSweepAlerts == 1
MaxSweepRecs == 1
MaxSweepClock == 6

\* monitor_all_fields / monitor_field called with a session the caller commits
MonitorFields(scope, lookup_ok, failing) ==
    LET r == psps_process(scope, lookup_ok, failing)
    IN  /\ Len(r.alerts) <= MaxSweepAlerts
        /\ Len(r.recs) <= MaxSweepRecs
        /\ SweepDone(scope, r, TRUE, job)

\* AgentScheduler._run_psps_agent: it leaves the get_db() generator at its
\* yield, so the session is closed without the commit that follows the yield
RunPspsAgent(lookup_ok, failing) ==
    SweepDone("all", psps_process("all", lookup_ok, failing), FALSE, job)

\* the PSPS event store changes what get_affected_fields reports for a field
UpstreamChange(f, e) ==
    /\ upstream[f] # e
    /\ upstream' = [upstream EXCEPT ![f] = e]
    /\ sweep' = [sweep EXCEPT !.same_data = FALSE]
    /\ UNCHANGED <<snap, irr, pc, now, recs, alerts, svc, seen, prefs, weff, job,
                   water_metrics, mcp, chain, calls>>

\* time passes between runs
Advance ==
    /\ now + RecentRecommendationHours <= MaxSweepClock
    /\ now' = now + RecentRecommendationHours
    /\ UNCHANGED <<snap, irr, pc, recs, alerts, svc, agentVars>>

\* an owner without a preferences row, or one who switched PSPS alerts off
\* and shortened the pre-irrigation lead time
PspsPreferenceChoices ==
    { NoPreferences,
      [DefaultPreferences EXCEPT !.psps_alerts_enabled = FALSE,
                                 !.psps_pre_irrigation_hours = 12] }

InitPsps ==
    /\ snap = WithDb(Answers(SensorNone, FireNone, PspsNone, NdviNone), "nodb")
    /\ irr = IrrigationAgentState
    /\ pc = "ready"
    /\ now = 0
    /\ recs = <<>>
    /\ alerts = <<>>
    /\ svc = NoCall
    /\ seen = {}
    /\ upstream = [f \in Fields |-> NoEvent]
    /\ \E p \in PspsPreferenceChoices :
          prefs = [f \in Fields |-> IF f = "f1" THEN p ELSE DefaultPreferences]
    /\ sweep = NoSweep
    /\ weff = [f \in Fields |-> NoWaterRun]
    /\ job = NoJob
    /\ water_metrics = NoMetrics
    /\ mcp = NoRead
    /\ chain = NoChain
    /\ calls = {}

NextPsps ==
    \/ \E scope \in {"all", "f1"} : \E ok \in BOOLEAN : \E failing \in {{}, {"f1"}} :
          MonitorFields(scope, ok, failing)
    \/ \E ok \in BOOLEAN : \E failing \in {{}, {"f1"}} : RunPspsAgent(ok, failing)
    \/ \E e \in {"e1", "e2", "e3", NoEvent} : UpstreamChange("f1", e)
    \/ \E e \in {"e4", NoEvent} : UpstreamChange("f2", e)
    \/ Advance

SpecPsps == InitPsps /\ [][NextPsps]_vars

(***************************************************************************)
(* Water-efficiency agent: one call of process, or one scheduler job, is   *)
(* one step.  The water saved that MetricsService.calculate_water_saved    *)
(* computes for a field is an input; accepts tells whether the metrics     *)
(* service in use takes the water_cost_per_liter_usd keyword the agent     *)
(* passes (the one in app/services/metrics.py does not and the call ends   *)
(* in a TypeError).                                                        *)
(***************************************************************************)
WaterValues == {900, 1200, 1300, 8000, 30000}

\* milestone_threshold of _check_milestones
milestone_threshold(p) ==
    IF p.present /\ p.water_savings_milestone_liters # 0
    THEN p.water_savings_milestone_liters
    ELSE DEFAULT_MILESTONE_1000L

\* the rung test of _check_milestones
Reached(water_saved, last, rung) ==
    water_saved >= rung /\ (last = Null \/ last < rung)

\* WaterEfficiencyAgent._check_milestones: the milestone alerted (0: none),
\* given state.last_milestone_alerted
check_milestones(p, water_saved, last) ==
    IF p.present /\ ~p.water_milestone_alerts_enabled THEN 0
    ELSE IF Reached(water_saved, last, DEFAULT_MILESTONE_25000L)
    THEN DEFAULT_MILESTONE_25000L
    ELSE IF Reached(water_saved, last, DEFAULT_MILESTONE_10000L)
    THEN DEFAULT_MILESTONE_10000L
    ELSE IF Reached(water_saved, last, DEFAULT_MILESTONE_5000L)
    THEN DEFAULT_MILESTONE_5000L
    ELSE IF Reached(water_saved, last, milestone_threshold(p))
    THEN milestone_threshold(p)
    ELSE 0

\* WaterEfficiencyAgent.process on WaterEfficiencyAgentState(field_id=f),
\* whose last_milestone_alerted is None.  The metrics call is made with the
\* keyword water_cost_per_liter_usd whether or not the owner set a cost.
water_process_for(p, water_saved, accepts) ==
    IF ~accepts
    THEN [error |-> "TypeError", alerted |-> 0]
    ELSE [error |-> "", alerted |-> check_milestones(p, water_saved, Null)]

\* the same run, the resolver returning the preferences noted in prefs
water_process(f, water_saved, accepts) ==
    water_process_for(prefs[f], water_saved, accepts)

\* the summary kept for a field after a run
WaterRun(f, water_saved, r) ==
    LET before == weff[f]
        prior == IF before.water_saved = Null \/ before.error # "" THEN before.prior
                 ELSE Max2(before.prior, before.water_saved)
    IN  [water_saved |-> water_saved,
         prior |-> prior,
         rising |-> IF r.error # "" THEN before.rising
                    ELSE before.rising /\ (prior = Null \/ prior < water_saved),
         error |-> r.error,
         alerted |-> r.alerted]

MilestoneAlertRow(f, milestone, t) ==
    AlertRow(f, "WATER_SAVED_MILESTONE", "INFO", "WATER_EFFICIENCY", "-", milestone, t)

\* bound of the water-efficiency specification
MaxWaterAlerts == 1

\* calculate_for_field: one call of process with a session the caller commits
CalculateForField(f, water_saved, accepts) ==
    LET r == water_process(f, water_saved, accepts)
    IN  /\ weff' = [weff EXCEPT ![f] = WaterRun(f, water_saved, r)]
        /\ IF r.alerted = 0
           THEN alerts' = alerts
           ELSE /\ Len(alerts) < MaxWaterAlerts
                /\ alerts' = Append(alerts, MilestoneAlertRow(f, r.alerted, now))
        /\ svc' = [NoCall EXCEPT !.op = "water", !.field = f]
        /\ UNCHANGED <<snap, irr, pc, now, recs, seen, upstream, prefs, sweep, job,
                       water_metrics, mcp, chain, calls>>

\* AgentScheduler._run_water_efficiency_agent_all_fields: a fresh state per
\* field; the job leaves the get_db() generator at its yield, so the session
\* is closed without the commit that follows the yield.  failing holds the
\* fields for which the metrics query itself raises; metrics_updated and
\* errors are the two counts of the closing log line
RunWaterEfficiencyAgentAllFields(w, accepts, failing) ==
    LET state == [f \in Fields |->
                     water_process(f, w[f], accepts /\ f \notin failing)]
        metrics_updated == Cardinality({f \in Fields : state[f].error = ""})
        errors == Cardinality({f \in Fields : state[f].error # ""})
    IN  /\ weff' = [f \in Fields |-> WaterRun(f, w[f], state[f])]
        /\ svc' = [NoCall EXCEPT !.op = "water_job"]
        /\ job' = [NoJob EXCEPT !.name = "water", !.succeeded = metrics_updated,
                                !.errors = errors, !.failing = failing]
        /\ UNCHANGED <<snap, irr, pc, now, recs, alerts, seen, upstream, prefs, sweep,
                       water_metrics, mcp, chain, calls>>

\* owners without a preferences row, with milestone alerts switched off,
\* with their own milestone, or with their own water cost (0.002 dollars per
\* liter, in thousandths)
WaterPreferenceChoices ==
    { NoPreferences,
      [DefaultPreferences EXCEPT !.water_milestone_alerts_enabled = FALSE],
      [DefaultPreferences EXCEPT !.water_savings_milestone_liters = 7000],
      [DefaultPreferences EXCEPT !.water_savings_milestone_liters = 500],
      [DefaultPreferences EXCEPT !.water_cost_per_liter_usd = 2] }

InitWater ==
    /\ snap = WithDb(Answers(SensorNone, FireNone, PspsNone, NdviNone), "nodb")
    /\ irr = IrrigationAgentState
    /\ pc = "ready"
    /\ now = 0
    /\ recs = <<>>
    /\ alerts = <<>>
    /\ svc = NoCall
    /\ seen = {}
    /\ upstream = [f \in Fields |-> NoEvent]
    /\ \E p \in WaterPreferenceChoices :
          prefs = [f \in Fields |-> IF f = "f1" THEN p ELSE DefaultPreferences]
    /\ sweep = NoSweep
    /\ weff = [f \in Fields |-> NoWaterRun]
    /\ job = NoJob
    /\ water_metrics = NoMetrics
    /\ mcp = NoRead
    /\ chain = NoChain
    /\ calls = {}

NextWater ==
    \/ \E ws \in WaterValues : \E accepts \in BOOLEAN :
          CalculateForField("f1", ws, accepts)
    \/ \E w1 \in WaterValues : \E accepts \in BOOLEAN :
          RunWaterEfficiencyAgentAllFields(
              [f \in Fields |-> IF f = "f1" THEN w1 ELSE 1200],
              accepts, {})

SpecWater == InitWater /\ [][NextWater]_vars

(***************************************************************************)
(* The batch entry points: the scheduler's irrigation and water-efficiency *)
(* jobs and the PSPS sweep over all fields, each one step.                 *)
(***************************************************************************)
\* the loop of _run_irrigation_agent_all_fields that ends at the first field
\* whose decision fails
RECURSIVE run_irrigation_fields_aborting(_, _, _)
run_irrigation_fields_aborting(a, i, acc) ==
    IF i > Len(FieldOrder) THEN acc
    ELSE LET state == process(IrrigationAgentState, WithDb(a[FieldOrder[i]], "found"))
         IN  IF state.error # ""
             THEN [acc EXCEPT !.errors = @ + 1]
             ELSE IF state.recommended_action # "NONE"
             THEN run_irrigation_fields_aborting(a, i + 1,
                      [acc EXCEPT !.recommendations_created = @ + 1])
             ELSE run_irrigation_fields_aborting(a, i + 1, acc)

\* the loop of _run_irrigation_agent_all_fields: process on a fresh state for
\* each field, counting the states with an error and those with an action;
\* no state is handed to RecommendationService
RECURSIVE run_irrigation_fields(_, _, _)
run_irrigation_fields(a, i, acc) ==
    IF i > Len(FieldOrder) THEN acc
    ELSE LET state == process(IrrigationAgentState, WithDb(a[FieldOrder[i]], "found"))
         IN  IF state.error # ""
             THEN run_irrigation_fields(a, i + 1, [acc EXCEPT !.errors = @ + 1])
             ELSE IF state.recommended_action # "NONE"
             THEN run_irrigation_fields(a, i + 1,
                      [acc EXCEPT !.recommendations_created = @ + 1])
             ELSE run_irrigation_fields(a, i + 1, acc)

\* AgentScheduler._run_irrigation_agent_all_fields; a gives the gateway
\* answers for each field
RunIrrigationAgentAllFields(a) ==
    LET r == run_irrigation_fields(a, 1, [recommendations_created |-> 0, errors |-> 0])
    IN  /\ job' = [NoJob EXCEPT !.name = "irrigation",
                                !.succeeded = r.recommendations_created,
                                !.errors = r.errors,
                                !.answers = a]
        /\ svc' = [NoCall EXCEPT !.op = "irrigation_job"]
        /\ UNCHANGED <<snap, irr, pc, now, recs, alerts, seen, upstream, prefs,
                       sweep, weff, water_metrics, mcp, chain, calls>>

\* monitor_all_fields, with the inputs of the run noted in the report
MonitorAllFields(lookup_ok, failing) ==
    LET r == psps_process("all", lookup_ok, failing)
    IN  /\ Len(r.alerts) <= MaxSweepAlerts
        /\ Len(r.recs) <= MaxSweepRecs
        /\ SweepDone("all", r, TRUE,
                     [NoJob EXCEPT !.name = "psps",
                                   !.succeeded = r.alerts_created,
                                   !.failing = failing,
                                   !.new_events =
                                       find_affected_fields("all", upstream, seen).new_events])

\* gateway answers of a field in a scheduled irrigation run
JobAnswers ==
    { Answers(SensorNone, FireNone, PspsNone, NdviNone),
      Answers(SensorRaise, FireNone, PspsNone, NdviNone),
      Answers(Sensor(25), FireNone, PspsNone, NdviNone) }

InitBatch ==
    /\ snap = WithDb(Answers(SensorNone, FireNone, PspsNone, NdviNone), "nodb")
    /\ irr = IrrigationAgentState
    /\ pc = "ready"
    /\ now = 0
    /\ recs = <<>>
    /\ alerts = <<>>
    /\ svc = NoCall
    /\ seen = {}
    /\ upstream = [f \in Fields |-> IF f = "f1" THEN "e3" ELSE "e4"]
    /\ prefs = [f \in Fields |-> DefaultPreferences]
    /\ sweep = NoSweep
    /\ weff = [f \in Fields |-> NoWaterRun]
    /\ job = NoJob
    /\ water_metrics = NoMetrics
    /\ mcp = NoRead
    /\ chain = NoChain
    /\ calls = {}

NextBatch ==
    \/ \E a \in [Fields -> JobAnswers] : RunIrrigationAgentAllFields(a)
    \/ \E w1 \in {900, 1200} : \E accepts \in BOOLEAN : \E failing \in {{}, {"f1"}} :
          RunWaterEfficiencyAgentAllFields(
              [f \in Fields |-> IF f = "f1" THEN w1 ELSE 1200], accepts, failing)
    \/ \E ok \in BOOLEAN : \E failing \in {{}, {"f1"}} : MonitorAllFields(ok, failing)

SpecBatch == InitBatch /\ [][NextBatch]_vars

(***************************************************************************)
(* MetricsService.calculate_water_saved over the recommendations table.    *)
(* Liters are whole numbers; money is in thousandths of a dollar.          *)
(***************************************************************************)
\* liters per hectare per month by crop type
TYPICAL_WATER_USAGE_LITERS_PER_HECTARE_PER_MONTH(crop_type) ==
    CASE crop_type = "almond" -> 12000
      [] crop_type = "grape" -> 8000
      [] crop_type = "tomato" -> 10000
      [] crop_type = "lettuce" -> 6000
      [] crop_type = "corn" -> 9000
      [] crop_type = "wheat" -> 5000
      [] OTHER -> 8000

WATER_COST_PER_LITER_USD == 1
SEASON_LENGTH_MONTHS == 6

\* crop type and area of the rows of the fields table
FieldRow ==
    [f \in Fields |->
        IF f = "f1" THEN [crop_type |-> "almond", area_hectares |-> 10]
        ELSE [crop_type |-> "tomato", area_hectares |-> 1]]

\* the period of a request in days: the length of its time range and, over
\* 30, the number of months of its baseline
PeriodDays(period) ==
    CASE period = "season" -> 30 * SEASON_LENGTH_MONTHS
      [] period = "month" -> 30
      [] period = "week" -> 7

\* _get_typical_water_usage, the period given in days
get_typical_water_usage(crop_type, area_hectares, period_days) ==
    (TYPICAL_WATER_USAGE_LITERS_PER_HECTARE_PER_MONTH(crop_type)
        * area_hectares * period_days) \div 30

\* _calculate_cost_saved
calculate_cost_saved(water_saved_liters) ==
    water_saved_liters * WATER_COST_PER_LITER_USD

\* the rows the recommendations query of calculate_water_saved selects
InPeriod(row, fid, period, t) ==
    /\ row.field = fid
    /\ row.agent_type = "FIRE_ADAPTIVE_IRRIGATION"
    /\ row.created_at >= t - 24 * PeriodDays(period)

\* the loop over the selected rows: a tenth of the monthly baseline for every
\* IRRIGATE or PRE_IRRIGATE row, whether or not water_saved_liters is set
RECURSIVE water_recommended(_, _, _, _, _)
water_recommended(table, i, fid, period, t) ==
    IF i > Len(table) THEN 0
    ELSE (IF /\ InPeriod(table[i], fid, period, t)
             /\ table[i].action \in {"IRRIGATE", "PRE_IRRIGATE"}
          THEN get_typical_water_usage(FieldRow[fid].crop_type,
                                       FieldRow[fid].area_hectares, 30) \div 10
          ELSE 0)
         + water_recommended(table, i + 1, fid, period, t)

\* MetricsService.calculate_water_saved(db, field_id, period)
calculate_water_saved(table, fid, period, t) ==
    IF fid \notin Fields
    THEN [NoMetrics EXCEPT !.field = fid, !.period = period, !.error = "ValueError"]
    ELSE LET water_recommended_liters == water_recommended(table, 1, fid, period, t)
             water_typical_liters ==
                 get_typical_water_usage(FieldRow[fid].crop_type,
                                         FieldRow[fid].area_hectares,
                                         PeriodDays(period))
             water_saved_liters == Max2(0, water_typical_liters - water_recommended_liters)
         IN  [field |-> fid, period |-> period, error |-> "",
              water_recommended_liters |-> water_recommended_liters,
              water_typical_liters |-> water_typical_liters,
              water_saved_liters |-> water_saved_liters,
              cost_saved_usd |-> calculate_cost_saved(water_saved_liters)]

\* GET /api/metrics/water for field fid
CalculateWaterSaved(fid, period) ==
    /\ water_metrics' = calculate_water_saved(recs, fid, period, now)
    /\ svc' = [NoCall EXCEPT !.op = "metrics", !.field = fid]
    /\ UNCHANGED <<snap, irr, pc, now, recs, alerts, seen, upstream, prefs, sweep,
                   weff, job, mcp, chain, calls>>

\* bound: rows in the recommendations table of the metrics specification
MaxMetricRecs == 2

\* a creation time before the start of a one-week period
BeforeWeek == 0 - 200

\* rows the table can hold: decisions persisted by the service layer
\* (IRRIGATE with water_saved_liters 0.0, DELAY with 5000.0), a row inserted
\* with no water_saved_liters, and a pre-irrigation row of the PSPS agent
MetricsRows ==
    {RecommendationRow(f, recommend(WithDb(a, "found")), t) :
        f \in Fields, t \in {BeforeWeek, 0},
        a \in {Answers(Sensor(25), FireNone, PspsNone, NdviNone),
               Answers(Sensor(55), Fire(<<85>>), PspsNone, NdviNone)}}
    \cup {[RecommendationRow(f, recommend(WithDb(
                Answers(Sensor(25), FireNone, PspsNone, NdviNone), "found")), 0)
             EXCEPT !.water_saved_liters = Null] : f \in Fields}
    \cup {create_pre_irrigation_recommendation(<<>>, "f1", "e2", 60 * 20, 0)[1]}

RECURSIVE MetricsTables(_)
MetricsTables(n) ==
    IF n = 0 THEN {<<>>}
    ELSE MetricsTables(n - 1)
         \cup {Append(tb, r) : tb \in {x \in MetricsTables(n - 1) : Len(x) = n - 1},
                               r \in MetricsRows}

InitMetrics ==
    /\ snap = WithDb(Answers(SensorNone, FireNone, PspsNone, NdviNone), "nodb")
    /\ irr = IrrigationAgentState
    /\ pc = "ready"
    /\ now = 0
    /\ recs \in MetricsTables(MaxMetricRecs)
    /\ alerts = <<>>
    /\ svc = NoCall
    /\ AgentsIdle

\* a recommendation row is persisted between two requests: db.add of
\* create_recommendation or of the PSPS agent, created_at being the moment
\* of the insert
InsertRecommendation(r) ==
    /\ Len(recs) < MaxMetricRecs
    /\ r.created_at = now
    /\ recs' = Append(recs, r)
    /\ svc' = [NoCall EXCEPT !.op = "create_recommendation", !.field = r.field,
                             !.id = Len(recs) + 1, !.status = "created"]
    /\ UNCHANGED <<snap, irr, pc, now, alerts, agentVars>>

NextMetrics ==
    \/ \E fid \in FieldIds : \E period \in {"season", "week"} :
          CalculateWaterSaved(fid, period)
    \/ \E r \in MetricsRows : InsertRecommendation(r)

SpecMetrics == InitMetrics /\ [][NextMetrics]_vars

(***************************************************************************)
(* The gateways of app/mcp: one read of a gateway, or one call of the MCP  *)
(* client, is one step.  The settings and what the upstream source does    *)
(* are inputs.                                                             *)
(***************************************************************************)
Gateways == {"sensor", "weather", "fire_risk", "psps", "ndvi"}

\* what the upstream source of a gateway does when it is asked: it delivers
\* data, it fails, it answers with something that cannot be parsed, or it
\* does not answer in time
UpstreamOutcomes == {"data", "failure", "unparsable", "timeout"}

\* use_mock as each gateway's __init__ derives it from the settings: the
\* sensor gateway looks at the environment only, the others also at their
\* key or URL
use_mock(gateway, environment, configured) ==
    IF gateway = "sensor" THEN environment = "development"
    ELSE ~configured \/ environment = "development"

\* the _get_real_... method of each gateway: "real" data, "mock" data or
\* "raise".  The sensor and satellite methods are placeholders that return
\* the mock data; get_predicted_shutoffs calls its method without the db
\* argument, which raises TypeError before anything is fetched.
get_real(gateway, answer) ==
    CASE gateway \in {"sensor", "ndvi"} -> "mock"
      [] gateway = "psps" -> "raise"
      [] OTHER -> IF answer = "data" THEN "real" ELSE "raise"

\* get_latest_reading / get_forecast / get_fire_risk_zones /
\* get_predicted_shutoffs / get_ndvi: mock data when use_mock, else the real
\* method inside try/except whose handler returns the mock data
gateway_read(gateway, mock, answer) ==
    IF mock THEN "mock"
    ELSE IF get_real(gateway, answer) = "raise" THEN "mock"
    ELSE get_real(gateway, answer)

\* default of MCPClient.max_retries
max_retries == 2

\* what one HTTP attempt of MCPClient.call ends with
AttemptOutcomes == {"result", "timeout", "http_error", "rpc_error"}

\* MCPClient.call: attempts 0 .. max_retries; the error of the last attempt
\* is raised when none delivers a result
RECURSIVE client_call(_, _)
client_call(outcomes, attempt) ==
    IF outcomes[attempt + 1] = "result"
    THEN [result |-> "result", attempts |-> attempt + 1]
    ELSE IF attempt < max_retries
    THEN client_call(outcomes, attempt + 1)
    ELSE [result |-> IF outcomes[attempt + 1] = "timeout"
                     THEN "MCPTimeoutError" ELSE "MCPClientError",
          attempts |-> attempt + 1]

GatewayRead(gateway, environment, configured, answer) ==
    LET mock == use_mock(gateway, environment, configured)
    IN  /\ mcp' = [op |-> "read", gateway |-> gateway, use_mock |-> mock,
                   upstream |-> <<environment, configured, answer>>,
                   result |-> gateway_read(gateway, mock, answer),
                   attempts |-> IF mock THEN 0 ELSE 1]
        /\ UNCHANGED <<snap, irr, pc, now, recs, alerts, svc, seen, upstream, prefs,
                       sweep, weff, job, water_metrics, chain, calls>>

ClientCall(outcomes) ==
    LET r == client_call(outcomes, 0)
    IN  /\ mcp' = [op |-> "call", gateway |-> "client", use_mock |-> FALSE,
                   upstream |-> outcomes, result |-> r.result,
                   attempts |-> r.attempts]
        /\ UNCHANGED <<snap, irr, pc, now, recs, alerts, svc, seen, upstream, prefs,
                       sweep, weff, job, water_metrics, chain, calls>>

InitGateway ==
    /\ snap = WithDb(Answers(SensorNone, FireNone, PspsNone, NdviNone), "nodb")
    /\ irr = IrrigationAgentState
    /\ pc = "ready"
    /\ now = 0
    /\ recs = <<>>
    /\ alerts = <<>>
    /\ svc = NoCall
    /\ AgentsIdle

NextGateway ==
    \/ \E g \in Gateways : \E env \in {"development", "production"} :
       \E configured \in BOOLEAN : \E up \in UpstreamOutcomes :
          GatewayRead(g, env, configured, up)
    \/ \E outcomes \in [1..(max_retries + 1) -> AttemptOutcomes] : ClientCall(outcomes)

SpecGateway == InitGateway /\ [][NextGateway]_vars

(***************************************************************************)
(* Resolving the owner's preferences for a field, and the agent runs that  *)
(* start with it.                                                          *)
(***************************************************************************)
\* what building and running the field query of the resolver ends with.
\* The query names the last relationship by a string,
\* selectinload("preferences"): SQLAlchemy 2.x, which the Mapped and
\* mapped_column declarations of app/models require, raises ArgumentError
\* ("Strings are not accepted for attribute names in loader options") while
\* the statement is built; "rows" is a library that takes the string and a
\* database that answers; "raise" is db.execute failing.
QueryOutcomes == {"ArgumentError", "rows", "raise"}

\* get_user_preferences_for_field: every exception is caught and None is
\* returned
get_user_preferences_for_field(c, query) ==
    IF query # "rows" THEN NoPreferences
    ELSE IF c.link = "no_field" THEN NoPreferences
    ELSE IF c.link = "by_relationship" /\ c.stored.present THEN c.stored
    ELSE IF c.link = "by_farm_id" /\ c.stored.present THEN c.stored
    ELSE NoPreferences

\* a direct call of the resolver for a field id
GetUserPreferencesForField(fid, query) ==
    LET p == get_user_preferences_for_field(chain[fid], query)
    IN  /\ prefs' = [f \in Fields |-> IF f = fid THEN p ELSE prefs[f]]
        /\ svc' = [NoCall EXCEPT !.op = "preferences", !.field = fid,
                                 !.status = IF p.present THEN "found" ELSE "absent"]
        /\ UNCHANGED <<snap, irr, pc, now, recs, alerts, seen, upstream, sweep, weff,
                       job, water_metrics, mcp, chain, calls>>

\* the fields for which a PSPS run calls the resolver: those reported with
\* an event that is new to the run (_generate_alerts) or with a PREDICTED
\* shutoff (_check_pre_irrigation)
ResolvedBySweep(scope) ==
    LET found == find_affected_fields(scope, upstream, seen)
    IN  {found.affected[i][1] : i \in
            {j \in 1..Len(found.affected) :
                \/ found.affected[j][2] \in found.new_events
                \/ ShutoffInfo[found.affected[j][2]].status = "PREDICTED"}}

\* monitor_field / monitor_all_fields with a session the caller commits, the
\* resolver being called inside the run
MonitorOwnedFields(scope, query) ==
    LET pr == [f \in Fields |-> get_user_preferences_for_field(chain[f], query)]
        r == psps_process_for(scope, TRUE, {}, pr)
    IN  /\ Len(r.alerts) <= MaxSweepAlerts + MaxWaterAlerts
        /\ Len(r.recs) <= MaxSweepRecs
        /\ prefs' = [f \in Fields |->
                        IF f \in ResolvedBySweep(scope) THEN pr[f] ELSE prefs[f]]
        /\ seen' = r.seen
        /\ alerts' = r.alerts
        /\ recs' = r.recs
        /\ sweep' = [scope |-> scope, at |-> now, error |-> r.error,
                     committed |-> TRUE, alerts_created |-> r.alerts_created,
                     repeat |-> /\ sweep.scope = scope
                                /\ sweep.same_data
                                /\ sweep.error = "",
                     same_data |-> TRUE]
        /\ svc' = [NoCall EXCEPT !.op = "psps", !.field = scope]
        /\ UNCHANGED <<snap, irr, pc, now, upstream, weff, job, water_metrics, mcp,
                       chain, calls>>

\* calculate_for_field, the resolver being called inside the run
CalculateForOwnedField(f, water_saved, accepts, query) ==
    LET p == get_user_preferences_for_field(chain[f], query)
        r == water_process_for(p, water_saved, accepts)
    IN  /\ prefs' = [prefs EXCEPT ![f] = p]
        /\ weff' = [weff EXCEPT ![f] = WaterRun(f, water_saved, r)]
        /\ IF r.alerted = 0
           THEN alerts' = alerts
           ELSE /\ Len(alerts) < MaxSweepAlerts + MaxWaterAlerts
                /\ alerts' = Append(alerts, MilestoneAlertRow(f, r.alerted, now))
        /\ svc' = [NoCall EXCEPT !.op = "water", !.field = f]
        /\ UNCHANGED <<snap, irr, pc, now, recs, seen, upstream, sweep, job,
                       water_metrics, mcp, chain, calls>>

\* preferences rows an owner can have
StoredPreferences ==
    { NoPreferences, DefaultPreferences,
      [DefaultPreferences EXCEPT !.psps_alerts_enabled = FALSE,
                                 !.psps_pre_irrigation_hours = 12],
      [DefaultPreferences EXCEPT !.water_milestone_alerts_enabled = FALSE] }

\* f1 is reported with the PREDICTED shutoff e2; nothing has been resolved
InitOwner ==
    /\ snap = WithDb(Answers(SensorNone, FireNone, PspsNone, NdviNone), "nodb")
    /\ irr = IrrigationAgentState
    /\ pc = "ready"
    /\ now = 0
    /\ recs = <<>>
    /\ alerts = <<>>
    /\ svc = NoCall
    /\ seen = {}
    /\ upstream = [f \in Fields |-> IF f = "f1" THEN "e2" ELSE NoEvent]
    /\ prefs = [f \in Fields |-> NoPreferences]
    /\ sweep = NoSweep
    /\ weff = [f \in Fields |-> NoWaterRun]
    /\ job = NoJob
    /\ water_metrics = NoMetrics
    /\ mcp = NoRead
    /\ \E link \in {"no_farm", "by_relationship", "by_farm_id"} :
       \E stored \in StoredPreferences :
          chain = [NoChain EXCEPT !["f1"] = Chain(link, stored)]
    /\ calls = {}

NextOwner ==
    \/ \E fid \in FieldIds : \E query \in QueryOutcomes :
          GetUserPreferencesForField(fid, query)
    \/ \E scope \in {"all", "f1"} : \E query \in QueryOutcomes :
          MonitorOwnedFields(scope, query)
    \/ \E ws \in {900, 1200} : \E accepts \in BOOLEAN : \E query \in QueryOutcomes :
          CalculateForOwnedField("f1", ws, accepts, query)

SpecOwner == InitOwner /\ [][NextOwner]_vars

(***************************************************************************)
(* Creation of ledger rows, and the ledger under concurrent callers: an    *)
(* accept or acknowledge call reads its row, suspends, and writes when it  *)
(* resumes; the irrigation and PSPS agents append rows in between.         *)
(***************************************************************************)
\* states create_recommendation can be handed by the agent it calls: a
\* completed decision, a failed one, and completed ones whose confidence
\* is None, 0.0, 1.5 or -0.1 or whose reasoning is empty (confidence and
\* reasoning are unconstrained Optional fields of IrrigationAgentState)
HandedStates ==
    LET done == recommend(WithDb(Answers(Sensor(25), FireNone, PspsNone, NdviNone),
                                 "found"))
    IN  { done,
          recommend(WithDb(Answers(SensorRaise, FireNone, PspsNone, NdviNone), "found")),
          [done EXCEPT !.confidence = Null],
          [done EXCEPT !.confidence = 0],
          [done EXCEPT !.confidence = 90],
          [done EXCEPT !.confidence = 0 - 6],
          [done EXCEPT !.reasons = {}] }

\* RecommendationService.create_recommendation, the agent returning st
CreateRecommendation(fid, st) ==
    /\ Len(recs) < MaxRecs
    /\ LET r == create_recommendation(fid, st, now, recs)
       IN  /\ irr' = st
           /\ recs' = r.table
           /\ svc' = [op |-> "create_recommendation", field |-> fid,
                      id |-> IF r.status = "created" THEN Len(r.table) ELSE 0,
                      status |-> recommend_irrigation_status(r.status),
                      prior |-> FALSE]
    /\ UNCHANGED <<snap, pc, now, alerts>>
    /\ UNCHANGED agentVars

NextCreate ==
    \/ \E fid \in {"f1", NoField} : \E st \in HandedStates : CreateRecommendation(fid, st)
    \/ \E m \in {"", " ", "PSPS Event"} : CreateAlert("f1", m)
    \/ Tick

SpecCreate == InitService /\ [][NextCreate]_vars

\* callers of the ledger API, each with one request in flight at most
Clients == {"c1", "c2"}

\* accept_recommendation up to its commit: the row is fetched and its flag
\* looked at
AcceptRead(c, id) ==
    /\ \A k \in calls : k.client # c
    /\ id \in 1..Len(recs)
    /\ calls' = calls \cup {[client |-> c, op |-> "accept", id |-> id,
                             saw |-> recs[id].accepted]}
    /\ UNCHANGED <<snap, irr, pc, now, recs, alerts, svc, seen, upstream, prefs,
                   sweep, weff, job, water_metrics, mcp, chain>>

\* accept_recommendation from there: nothing when the flag was set, else
\* the flag and the timestamp are assigned and committed
AcceptWrite(k) ==
    /\ k \in calls
    /\ k.op = "accept"
    /\ recs' = IF k.saw THEN recs
               ELSE [recs EXCEPT ![k.id].accepted = TRUE, ![k.id].accepted_at = now]
    /\ calls' = calls \ {k}
    /\ svc' = [op |-> "accept", field |-> NoField, id |-> k.id, status |-> "200",
               prior |-> recs[k.id].accepted]
    /\ UNCHANGED <<snap, irr, pc, now, alerts, seen, upstream, prefs, sweep, weff,
                   job, water_metrics, mcp, chain>>

\* acknowledge_alert up to its flush
AcknowledgeRead(c, id) ==
    /\ \A k \in calls : k.client # c
    /\ id \in 1..Len(alerts)
    /\ calls' = calls \cup {[client |-> c, op |-> "acknowledge", id |-> id,
                             saw |-> alerts[id].acknowledged]}
    /\ UNCHANGED <<snap, irr, pc, now, recs, alerts, svc, seen, upstream, prefs,
                   sweep, weff, job, water_metrics, mcp, chain>>

\* acknowledge_alert from there
AcknowledgeWrite(k) ==
    /\ k \in calls
    /\ k.op = "acknowledge"
    /\ alerts' = IF k.saw THEN alerts
                 ELSE [alerts EXCEPT ![k.id].acknowledged = TRUE,
                                     ![k.id].acknowledged_at = now]
    /\ calls' = calls \ {k}
    /\ svc' = [op |-> "acknowledge", field |-> NoField, id |-> k.id,
               status |-> "200", prior |-> alerts[k.id].acknowledged]
    /\ UNCHANGED <<snap, irr, pc, now, recs, seen, upstream, prefs, sweep, weff,
                   job, water_metrics, mcp, chain>>

\* f1 is reported with the PREDICTED shutoff e2; its owner has no
\* preferences row
InitLedger ==
    /\ snap = WithDb(Answers(SensorNone, FireNone, PspsNone, NdviNone), "nodb")
    /\ irr = IrrigationAgentState
    /\ pc = "ready"
    /\ now = 0
    /\ recs = <<>>
    /\ alerts = <<>>
    /\ svc = NoCall
    /\ seen = {}
    /\ upstream = [f \in Fields |-> IF f = "f1" THEN "e2" ELSE NoEvent]
    /\ prefs = [f \in Fields |-> NoPreferences]
    /\ sweep = NoSweep
    /\ weff = [f \in Fields |-> NoWaterRun]
    /\ job = NoJob
    /\ water_metrics = NoMetrics
    /\ mcp = NoRead
    /\ chain = NoChain
    /\ calls = {}

NextLedger ==
    \/ RecommendIrrigation("f1",
          WithDb(Answers(Sensor(55), Fire(<<85>>), PspsNone, NdviNone), "found"))
    \/ \E c \in Clients : \E id \in 1..Len(recs) : AcceptRead(c, id)
    \/ \E k \in calls : AcceptWrite(k)
    \/ \E c \in Clients : \E id \in 1..Len(alerts) : AcknowledgeRead(c, id)
    \/ \E k \in calls : AcknowledgeWrite(k)
    \/ MonitorFields("all", TRUE, {})
    \/ Tick

SpecLedger == InitLedger /\ [][NextLedger]_vars

(***************************************************************************)
(* Properties of the irrigation decision (SpecDecision)                    *)
(***************************************************************************)
\* a prediction whose predicted start lies within the pre-irrigate window
InWindow(p) ==
    /\ p.fmt \in {"naive", "aware"}
    /\ 0 < p.h
    /\ p.h <= PSPS_PRE_IRRIGATE_HOURS

SomeInWindow(preds) == \E i \in 1..Len(preds) : InWindow(preds[i])

\* C1: whenever the assembled snapshot holds a PSPS prediction whose
\* predicted start lies within the 36-hour window, the decision that
\* completes is PRE_IRRIGATE, whatever the other slots hold.
C1_PspsDominates ==
    (pc = "decided" /\ irr.error = "" /\ irr.psps_predictions.present
        /\ SomeInWindow(irr.psps_predictions.preds))
    => irr.recommended_action = "PRE_IRRIGATE"

\* C5: when a gateway call fails, the pipeline still completes with a
\* recommended action and no error.
C5_GatewayFailureTolerated ==
    (pc = "decided" /\ FirstRaise(snap) <= 5)
    => (irr.error = "" /\ irr.step = "complete" /\ irr.recommended_action # "NONE")

\* every gateway answered "no data"
AllSlotsAbsent(s) ==
    /\ s.sensor.kind # "raise" /\ s.sensor.moisture = Null
    /\ s.weather.kind = "none"
    /\ s.fire.kind = "none"
    /\ s.psps.kind = "none"
    /\ s.ndvi.kind = "none"

\* C8: with the sensor, weather, fire-risk, PSPS and NDVI slots all absent
\* the decision completes without error, the action is MONITOR and the
\* confidence lies in [0.5, 1.0].
C8_AllAbsentMonitor ==
    (pc = "decided" /\ AllSlotsAbsent(snap))
    => /\ irr.error = ""
       /\ irr.step = "complete"
       /\ irr.recommended_action = "MONITOR"
       /\ 30 <= irr.confidence
       /\ irr.confidence <= 60

C8_Witness ==
    /\ pc = "decided"
    /\ AllSlotsAbsent(snap)
    /\ irr.recommended_action = "MONITOR"
    /\ irr.data_quality_score = 10

\* C14: when no PSPS prediction lies in the window, the fire-risk score is
\* at least 0.7 and the moisture reading is present and at least 50%, the
\* decision is DELAY with fire_risk_reduction_percent = min(15.0, 20 * score)
\* and water_saved_liters = 5000.0, whatever the drought score and the crop
\* health are; every completed decision with another action has both
\* impact values 0.0.
C14_DelayAndImpact ==
    pc = "decided" =>
        /\ (/\ ~SomeInWindow(irr.psps_predictions.preds)
            /\ irr.fire_risk_score # Null
            /\ irr.fire_risk_score >= 70
            /\ irr.current_soil_moisture # Null
            /\ irr.current_soil_moisture >= 50)
           => /\ irr.error = ""
              /\ irr.recommended_action = "DELAY"
              /\ irr.fire_risk_reduction_percent = Min2(150, 2 * irr.fire_risk_score)
              /\ irr.water_saved_liters = 5000
        /\ (irr.error = "" /\ irr.recommended_action # "DELAY")
           => /\ irr.fire_risk_reduction_percent = 0
              /\ irr.water_saved_liters = 0

\* moisture 55%, highest zone score 0.85 and poor crop health: DELAY, 15.0
\* (capped from 17.0) and 5000.0
C14_Witness ==
    /\ pc = "decided"
    /\ irr.current_soil_moisture = 55
    /\ irr.fire_risk_score = 85
    /\ crop_health_poor(irr.ndvi_data)
    /\ irr.recommended_action = "DELAY"
    /\ irr.fire_risk_reduction_percent = 150
    /\ irr.water_saved_liters = 5000

\* the sub-conditions of the IRRIGATE rule as the decision inputs state them
SoilMoistureLow(st) ==
    st.current_soil_moisture # Null
    /\ st.current_soil_moisture < SOIL_MOISTURE_LOW_THRESHOLD

DroughtRiskHigh(st) ==
    st.drought_risk_score # Null
    /\ st.drought_risk_score >= DROUGHT_RISK_HIGH_THRESHOLD

CropHealthPoor(st) ==
    st.ndvi_data.present
    /\ (st.ndvi_data.health = "poor"
        \/ (st.ndvi_data.ndvi # Null /\ st.ndvi_data.ndvi < 30))

\* fire risk high with sufficient moisture: the DELAY rule
DelayApplies(st) ==
    /\ st.fire_risk_score # Null
    /\ st.fire_risk_score >= FIRE_RISK_HIGH_THRESHOLD
    /\ st.current_soil_moisture # Null
    /\ st.current_soil_moisture >= SOIL_MOISTURE_SUFFICIENT_THRESHOLD

RECURSIVE FirstInWindow(_)
\* the first prediction of the list whose predicted start lies in the window
FirstInWindow(preds) ==
    IF preds = <<>> THEN <<>>
    ELSE IF InWindow(Head(preds)) THEN <<Head(preds)>>
    ELSE FirstInWindow(Tail(preds))

\* C16: a prediction whose predicted start lies in the window, 36 hours
\* from now included, gives PRE_IRRIGATE with psps_alert set and the timing
\* 12 hours before the predicted start; of several such predictions the
\* first in list order determines the timing.
C16_FirstPredictionDecides ==
    (/\ pc = "decided"
     /\ irr.data_quality_score # Null
     /\ FirstInWindow(irr.psps_predictions.preds) # <<>>)
    => /\ irr.error = ""
       /\ irr.recommended_action = "PRE_IRRIGATE"
       /\ irr.psps_alert
       /\ irr.recommended_timing =
             FirstInWindow(irr.psps_predictions.preds)[1].h - 12

\* C17: with moderate soil moisture (30% up to 50%), a fire-risk score
\* below 0.7, no PSPS prediction in the window and no poor crop health, the
\* decision is MONITOR with the timing 12 hours ahead, whatever the weather
\* gateway returned.
C17_BalancedMonitor ==
    (/\ pc = "decided"
     /\ irr.data_quality_score # Null
     /\ irr.current_soil_moisture # Null
     /\ irr.current_soil_moisture >= SOIL_MOISTURE_LOW_THRESHOLD
     /\ irr.current_soil_moisture < SOIL_MOISTURE_SUFFICIENT_THRESHOLD
     /\ irr.fire_risk_score # Null
     /\ irr.fire_risk_score < FIRE_RISK_HIGH_THRESHOLD
     /\ ~SomeInWindow(irr.psps_predictions.preds)
     /\ ~CropHealthPoor(irr))
    => /\ irr.error = ""
       /\ irr.recommended_action = "MONITOR"
       /\ irr.recommended_timing = 12

\* C26: every decision the five-stage pipeline completes without error has
\* a confidence within [0.5, 1.0] (30 to 60 sixtieths), whichever slots of
\* the snapshot are present and whichever action is chosen.
C26_ConfidenceInRange ==
    (pc = "decided" /\ irr.error = "" /\ irr.step = "complete")
    => (30 <= irr.confidence /\ irr.confidence <= 60)

\* C29: for one PSPS prediction at one current time the irrigation agent
\* takes the prediction as inside its 36-hour window (and so decides
\* PRE_IRRIGATE) exactly when the PSPS agent with the default lead time takes
\* it as inside its pre-irrigation window, with or without a timezone
\* designator in predicted_start_time.
C29_WindowsAgree ==
    (/\ pc = "decided"
     /\ irr.error = ""
     /\ irr.psps_predictions.present
     /\ Len(irr.psps_predictions.preds) = 1)
    => LET p == irr.psps_predictions.preds[1]
       IN  (irr.recommended_action = "PRE_IRRIGATE")
           <=> InPreIrrigationWindow(p.fmt, 60 * p.h,
                                     DEFAULT_PSPS_PRE_IRRIGATE_HOURS)

\* a clear-cut decision taken on the least data that allows one: the
\* moisture reading and the field location only
C26_Witness ==
    /\ pc = "decided"
    /\ irr.error = ""
    /\ irr.step = "complete"
    /\ irr.recommended_action = "IRRIGATE"
    /\ irr.data_quality_score = 20
    /\ irr.confidence = 32

\* C25: the recommended timing of a PRE_IRRIGATE decision is never earlier
\* than the moment of the decision (in the model the timing of a decision
\* is counted in hours from that moment), also when the predicted shutoff
\* starts less than 12 hours from now.
C25_PreIrrigateTimingNotPast ==
    (pc = "decided" /\ irr.error = "" /\ irr.recommended_action = "PRE_IRRIGATE")
    => irr.recommended_timing >= 0

(***************************************************************************)
(* Properties of the service layer (SpecService)                           *)
(***************************************************************************)
\* C4: acknowledging an alert that is already acknowledged, or accepting a
\* recommendation that is already accepted, succeeds and leaves the row as
\* it was (flag and timestamp unchanged).
C4_IdempotentAckAccept ==
    [][ /\ (svc'.op = "acknowledge" /\ svc'.id \in 1..Len(alerts)
             /\ alerts[svc'.id].acknowledged)
            => (alerts' = alerts /\ svc'.status = "200")
        /\ (svc'.op = "accept" /\ svc'.id \in 1..Len(recs)
             /\ recs[svc'.id].accepted)
            => (recs' = recs /\ svc'.status = "200") ]_vars

\* a repeated acknowledge arrived after the clock had moved on
C4_Witness ==
    /\ svc.op = "acknowledge"
    /\ svc.prior
    /\ svc.status = "200"
    /\ alerts[svc.id].acknowledged
    /\ alerts[svc.id].acknowledged_at < now

\* C6: a call whose pipeline ended with its error field set is surfaced as
\* failed and adds no row to the recommendations table.
C6_ErrorNotPersisted ==
    [][ (svc'.op = "recommend" /\ irr'.error # "")
        => (recs' = recs /\ svc'.status # "201") ]_vars

\* the pipeline failed after it had already chosen an action
C6_Witness ==
    /\ svc.op = "recommend"
    /\ irr.error # ""
    /\ irr.recommended_action # "NONE"
    /\ svc.status = "400"
    /\ recs = <<>>

\* C7: a decision requested for a field that has no row ends with an
\* explicit error, without a recommended action and without a persisted
\* Recommendation.
C7_NotFoundAborts ==
    (svc.op = "recommend" /\ svc.field \notin Fields)
    => /\ irr.error # ""
       /\ irr.recommended_action = "NONE"
       /\ \A i \in 1..Len(recs) : recs[i].field # svc.field

(***************************************************************************)
(* Properties of the PSPS agent (SpecPsps)                                 *)
(***************************************************************************)
\* C2: when the agent runs again on the same scope while the upstream data
\* have not changed since its previous completed run, the second run
\* creates no alert.
C2_SecondSweepSilent ==
    sweep.repeat => sweep.alerts_created = 0

\* the repeated run stayed silent about an event that is still reported and
\* that already has its alert
C2_Witness ==
    /\ sweep.repeat
    /\ sweep.same_data
    /\ sweep.alerts_created = 0
    /\ \E i \in 1..Len(alerts) :
          /\ alerts[i].agent_type = "PSPS_ANTICIPATION"
          /\ alerts[i].event = upstream[alerts[i].field]

\* the fields a run with the given scope looks at
ScopeFields(scope) == IF scope = "all" THEN Fields ELSE {scope} \cap Fields

\* the field has a PREDICTED shutoff that starts in the future and within
\* its owner's pre-irrigation lead time
PredictedWithinLead(f) ==
    /\ upstream[f] # NoEvent
    /\ ShutoffInfo[upstream[f]].status = "PREDICTED"
    /\ 0 < minutes_until(ShutoffInfo[upstream[f]], now)
    /\ minutes_until(ShutoffInfo[upstream[f]], now) <= 60 * pre_irrigate_hours(prefs[f])

FailedDecisions(a) ==
    {f \in Fields : recommend(WithDb(a[f], "found")).error # ""}

\* fields for which a PSPS sweep should have created an alert: reported
\* under an event that was new to the sweep, alerts not switched off, and
\* the alert insert did not raise
AlertDue(f) ==
    /\ upstream[f] \in job.new_events
    /\ ~(prefs[f].present /\ ~prefs[f].psps_alerts_enabled)
    /\ f \notin job.failing

\* C12: in each batch entry point a failure on one field or event does not
\* stop the others: the irrigation job and the water-efficiency job handle
\* every field and report one success or one error per field, and a PSPS
\* sweep creates and counts the alert of every other field when the alert
\* of one field cannot be created.
C12_BatchToleratesFailures ==
    /\ job.name = "irrigation" =>
          /\ job.errors = Cardinality(FailedDecisions(job.answers))
          /\ job.succeeded = Cardinality(Fields \ FailedDecisions(job.answers))
    /\ job.name = "water" =>
          /\ \A f \in Fields : weff[f].water_saved # Null
          /\ \A f \in job.failing : weff[f].error # ""
          /\ job.errors = Cardinality({f \in Fields : weff[f].error # ""})
          /\ job.succeeded = Cardinality({f \in Fields : weff[f].error = ""})
    /\ (job.name = "psps" /\ sweep.error = "") =>
          /\ \A f \in Fields : AlertDue(f) =>
                \E i \in 1..Len(alerts) :
                    /\ alerts[i].field = f
                    /\ alerts[i].event = upstream[f]
          /\ job.succeeded = Cardinality({f \in Fields : AlertDue(f)})

\* the decision of the first field failed and the second field was still
\* processed and counted
C12_Witness ==
    /\ job.name = "irrigation"
    /\ "f1" \in FailedDecisions(job.answers)
    /\ "f2" \notin FailedDecisions(job.answers)
    /\ job.errors = 1
    /\ job.succeeded = 1

\* C13: after a scheduled irrigation run the recommendations table holds a
\* row for every field whose decision completed without error in that run.
C13_ScheduledRunPersists ==
    job.name = "irrigation" =>
        \A f \in Fields \ FailedDecisions(job.answers) :
            \E i \in 1..Len(recs) :
                /\ recs[i].field = f
                /\ recs[i].agent_type = "FIRE_ADAPTIVE_IRRIGATION"

\* C19: a run of the water-efficiency agent for a field whose owner has set
\* a custom water cost per liter completes without error, so that a cost
\* saved at the owner's price is reported.
C19_CustomWaterCostCompletes ==
    \A f \in Fields :
        (/\ weff[f].water_saved # Null
         /\ prefs[f].present
         /\ prefs[f].water_cost_per_liter_usd # Null)
        => weff[f].error = ""

(***************************************************************************)
(* Properties of the gateways (SpecGateway)                                *)
(***************************************************************************)
\* C20: a gateway read gives real data or "no data"; when the gateway asks
\* its upstream source and the source fails, cannot be parsed or times out,
\* the read gives "no data" and does not raise.
C20_GatewayNoDataOnFailure ==
    (mcp.op = "read" /\ ~mcp.use_mock) =>
        /\ mcp.result \in {"real", "none"}
        /\ mcp.upstream[3] # "data" => mcp.result = "none"

(***************************************************************************)
(* Properties of the water metrics (SpecMetrics)                           *)
(***************************************************************************)
\* the sum the metric is described by: water_saved_liters of each selected
\* row, the per-event estimate only where water_saved_liters is absent
RECURSIVE SumWaterSavedOrEstimate(_, _, _, _, _)
SumWaterSavedOrEstimate(table, i, fid, period, t) ==
    IF i > Len(table) THEN 0
    ELSE (IF ~InPeriod(table[i], fid, period, t) THEN 0
          ELSE IF table[i].water_saved_liters # Null
          THEN table[i].water_saved_liters
          ELSE get_typical_water_usage(FieldRow[fid].crop_type,
                                       FieldRow[fid].area_hectares, 30) \div 10)
         + SumWaterSavedOrEstimate(table, i + 1, fid, period, t)

\* C18: water_recommended of a field and period is the sum of
\* water_saved_liters over the Fire-Adaptive Irrigation recommendations
\* created within the period, the per-event estimate standing in only for
\* a recommendation without water_saved_liters; it is 0 when there is none.
C18_WaterRecommendedSum ==
    (svc.op = "metrics" /\ water_metrics.field \in Fields /\ water_metrics.error = "")
    => water_metrics.water_recommended_liters =
           SumWaterSavedOrEstimate(recs, 1, water_metrics.field,
                                   water_metrics.period, now)

Ladder(p) ==
    {DEFAULT_MILESTONE_1000L, DEFAULT_MILESTONE_5000L, DEFAULT_MILESTONE_10000L,
     DEFAULT_MILESTONE_25000L}
    \cup (IF p.present THEN {p.water_savings_milestone_liters} ELSE {})

\* the milestones of the ladder the last run crossed for the first time
NewlyCrossed(f) ==
    {t \in Ladder(prefs[f]) : weff[f].prior < t /\ t <= weff[f].water_saved}

\* the milestone a run has to alert (0: none)
ExpectedMilestone(f) ==
    IF prefs[f].present /\ ~prefs[f].water_milestone_alerts_enabled THEN 0
    ELSE IF NewlyCrossed(f) = {} THEN 0
    ELSE CHOOSE t \in NewlyCrossed(f) : \A u \in NewlyCrossed(f) : u <= t

\* C9: a run for a field creates one milestone alert exactly when alerts are
\* enabled and a milestone of the ladder is newly crossed, and the alert is
\* for the highest newly crossed milestone (900 then 1200 alerts 1000).
C9_HighestNewMilestone ==
    \A f \in Fields :
        (weff[f].water_saved # Null /\ weff[f].rising)
        => weff[f].alerted = ExpectedMilestone(f)

(***************************************************************************)
(* Properties of the preferences resolver (SpecOwner)                      *)
(***************************************************************************)
\* the Field -> Farm -> Owner -> Preferences chain of a field id is complete
ChainComplete(fid) ==
    /\ chain[fid].link \in {"by_relationship", "by_farm_id"}
    /\ chain[fid].stored.present

\* C21: resolving the preferences of a field gives the owner's preferences
\* record when the chain is complete and the absent result otherwise; when
\* it is absent for a field, the run of the PSPS agent and the run of the
\* water-efficiency agent for that field complete without error.
C21_PreferencesResolved ==
    /\ svc.op = "preferences" =>
          IF ChainComplete(svc.field)
          THEN /\ svc.status = "found"
               /\ prefs[svc.field] = chain[svc.field].stored
          ELSE svc.status = "absent"
    /\ (svc.op = "psps" /\ ~ChainComplete("f1")) => sweep.error = ""
    /\ (svc.op = "water" /\ ~ChainComplete(svc.field)) => weff[svc.field].error = ""

InvalidForLedger(st) ==
    \/ st.confidence = Null
    \/ st.confidence < 0
    \/ st.confidence > 60
    \/ st.reasons = {}

RecommendationKept(before, after) ==
    \/ after = before
    \/ /\ ~before.accepted
       /\ after = [before EXCEPT !.accepted = TRUE, !.accepted_at = after.accepted_at]

\* the same for an alert row and its acknowledgement
AlertKept(before, after) ==
    \/ after = before
    \/ /\ ~before.acknowledged
       /\ after = [before EXCEPT !.acknowledged = TRUE,
                                 !.acknowledged_at = after.acknowledged_at]

\* C23: whatever the agents and the ledger calls do and however they
\* interleave, every existing row is still there after a step, unchanged or
\* gone from not accepted to accepted (unacknowledged to acknowledged);
\* rows are only appended.
C23_RowsOnlyAcceptedOrAcknowledged ==
    [][ /\ Len(recs') >= Len(recs)
        /\ \A i \in 1..Len(recs) : RecommendationKept(recs[i], recs'[i])
        /\ Len(alerts') >= Len(alerts)
        /\ \A i \in 1..Len(alerts) : AlertKept(alerts[i], alerts'[i]) ]_vars

\* whether the ledger holds a PSPS alert of the field for the event
HoldsPspsAlert(table, f, e) ==
    \E i \in 1..Len(table) :
        /\ table[i].field = f
        /\ table[i].agent_type = "PSPS_ANTICIPATION"
        /\ table[i].event = e

C30_WaterSavedCumulative ==
    [][ (/\ water_metrics.field \in Fields
         /\ water_metrics.error = ""
         /\ water_metrics'.field = water_metrics.field
         /\ water_metrics'.period = water_metrics.period
         /\ water_metrics'.error = "")
        => water_metrics'.water_saved_liters >= water_metrics.water_saved_liters ]_vars

====
